---- MODULE Spec2Model ----
(***************************************************************************)
(* TCPTransport::Link (openvpn/transport/tcplink.hpp): one outbound queue  *)
(* drained by asynchronous sends, one receive loop feeding a packet        *)
(* framer, a free list of recycled buffers and an optional mutation hook.  *)
(*                                                                         *)
(* The Link's methods are operators on a record w holding the Link's       *)
(* fields, the socket's outstanding operations and what the ReadHandler    *)
(* and SessionStats have been told.  A method that calls the ReadHandler   *)
(* lets the handler re-enter the Link (send, stop, start) before it        *)
(* returns, as the single-threaded callback model of the code allows.      *)
(***************************************************************************)
EXTENDS Integers, Sequences, FiniteSets, TLC

VARIABLES
    \* template parameter and constructor arguments
    RAW_MODE_ONLY, send_queue_max_size, free_list_max_size,
    \* Link fields
    halt, raw_mode_read, raw_mode_write, mutate, queue, free_list, pktstream,
    \* buffers the BufferPtrs of queue and free_list point to: id -> content
    heap,
    \* socket: outstanding async_send / async_receive operations, bytes written
    \* to the connection, bytes the peer wrote that were not received yet
    send_ops, recv_ops, wire_out, peer_stream, peer_closed,
    \* history: the accepted send() calls; whether every byte read from the
    \* connection so far was a framed packet's and went through the framer
    \* alone, and while that is so the packets the peer framed and the packets
    \* tcp_read_handler was given, in order
    sent_log, rx_framed, peer_pkts, delivered,
    \* the last operation: its name, result and the calls it made
    last, trace,
    \* undefined behaviour met (front() of an empty queue)
    ub,
    \* number of environment calls made so far, and how many a run may make
    calls, budget

vars == << RAW_MODE_ONLY, send_queue_max_size, free_list_max_size,
           halt, raw_mode_read, raw_mode_write, mutate, queue, free_list,
           pktstream, heap, send_ops, recv_ops, wire_out, peer_stream,
           peer_closed, delivered, sent_log, peer_pkts, rx_framed,
           last, trace, ub, calls, budget >>

----------------------------------------------------------------------------
\* Bounds of the model.

\* longest payload handed to send()
MaxPktLen == 2
\* frame_context.payload(): the largest payload the framer accepts
FrameCap == 2
\* the non-zero send_queue_max_size tried
SendQueueMax == 2
\* the free_list_max_size tried
FreeListMax == 1
\* most bytes one async_receive returns
MaxChunk == 3
\* environment calls (API calls and peer packets) in one run
MaxCalls == 3

\* the peer may frame a payload one byte longer than the framer accepts
MaxPeerLen == FrameCap + 1

Min(a, b) == IF a < b THEN a ELSE b

\* a payload of n bytes, each byte k
Pkt(n, k) == [i \in 1..n |-> k]

\* the packet a ReadHandler callback sends when it re-enters send()
ReactPkt == <<9>>

RECURSIVE Concat(_)
Concat(ss) == IF ss = <<>> THEN <<>> ELSE Head(ss) \o Concat(Tail(ss))

----------------------------------------------------------------------------
\* PacketStream (openvpn/transport/pktstream.hpp) and the mutation hook.

\* the lengths a 2-byte prefix holds are 0 .. PrefixRange - 1
PrefixRange == 256 * 256

\* PacketStream::prepend_size: 2-byte big-endian length, then the payload.
\* For a longer buffer it fails or is undefined: the caller chooses between
\* the throw and the length cut to 16 bits written here.
prepend_size(buf) ==
    << (Len(buf) \div 256) % 256, Len(buf) % 256 >> \o buf

\* a fresh PacketStream: no prefix byte and no payload byte accumulated
NewPktStream ==
    [hdr |-> <<>>, declared_size_defined |-> FALSE, declared_size |-> 0,
     buffer |-> <<>>]

\* PacketStream::put: consume bytes of buf into the packet being built, first
\* the 2-byte prefix, then up to declared_size payload bytes.  Yields the new
\* framer state, the residual input and whether the prefix was refused.
put(ps, buf, cap) ==
    LET nh  == IF ps.declared_size_defined THEN 0
               ELSE Min(2 - Len(ps.hdr), Len(buf))
        hdr == ps.hdr \o SubSeq(buf, 1, nh)
        b1  == SubSeq(buf, nh + 1, Len(buf))
        def == ps.declared_size_defined \/ Len(hdr) = 2
        sz  == IF ps.declared_size_defined THEN ps.declared_size
               ELSE IF Len(hdr) = 2 THEN hdr[1] * 256 + hdr[2] ELSE 0
    IN  IF def /\ sz > cap
        THEN [ps |-> NewPktStream, buf |-> b1, exc |-> TRUE]
        ELSE IF ~def
        THEN [ps |-> [ps EXCEPT !.hdr = hdr], buf |-> b1, exc |-> FALSE]
        ELSE LET nb == Min(sz - Len(ps.buffer), Len(b1))
             IN  [ps  |-> [hdr |-> <<>>, declared_size_defined |-> TRUE,
                           declared_size |-> sz,
                           buffer |-> ps.buffer \o SubSeq(b1, 1, nb)],
                  buf |-> SubSeq(b1, nb + 1, Len(b1)),
                  exc |-> FALSE]

\* PacketStream::ready
ready(ps) == ps.declared_size_defined /\ Len(ps.buffer) = ps.declared_size

\* TransportMutateStream: the hook of the spec's example inverts every bit
Invert(buf) == [i \in 1..Len(buf) |-> 255 - buf[i]]

pre_send(buf) == Invert(buf)

post_recv(buf) == Invert(buf)

----------------------------------------------------------------------------
\* The record the Link's methods work on.

World ==
    [RAW_MODE_ONLY |-> RAW_MODE_ONLY,
     send_queue_max_size |-> send_queue_max_size,
     free_list_max_size |-> free_list_max_size,
     halt |-> halt, raw_mode_read |-> raw_mode_read,
     raw_mode_write |-> raw_mode_write, mutate |-> mutate,
     queue |-> queue, free_list |-> free_list, pktstream |-> pktstream,
     heap |-> heap, send_ops |-> send_ops, recv_ops |-> recv_ops,
     delivered |-> delivered, sent_log |-> sent_log,
     ub |-> ub, calls |-> calls, budget |-> budget,
     \* per-operation scratch: calls made, callbacks so far, the handler's
     \* behaviour, return value and caller's buffer of send(), requeue / throw
     trace |-> <<>>, ncb |-> 0, nrd |-> 0,
     h |-> [react |-> "none", ret1 |-> TRUE, ret2 |-> TRUE],
     ret |-> FALSE, b |-> <<>>, requeue |-> TRUE, exc |-> FALSE,
     \* what prepend_size does with a buffer too long for the prefix
     oversize |-> "wrap"]

Ev(cb, reason, data) == [cb |-> cb, reason |-> reason, data |-> data]

Log(w, cb, reason, data) == [w EXCEPT !.trace = Append(@, Ev(cb, reason, data))]

\* an error SessionStats is not told of
stats_error_silent(w, kind) == w

\* stats->error(kind): the SessionStats object is told
stats_error(w, kind) == Log(w, "stats.error", kind, <<>>)

\* stats->inc_stat(counter, n)
inc_stat(w, counter, n) == Log(w, "stats.inc_stat", counter, <<n>>)

RECURSIVE React(_, _)

\* a ReadHandler callback other than tcp_read_handler: the handler notes the
\* call and, when this is the callback it reacts to, re-enters the Link
Callback(w, cb, reason) ==
    LET w1 == [Log(w, cb, reason, <<>>) EXCEPT !.ncb = @ + 1]
    IN  IF w1.ncb = 1 THEN React(w1, w1.h.react) ELSE w1

\* ReadHandler::tcp_read_handler: the handler keeps the packet, may re-enter
\* the Link, and returns whether to go on receiving (noted with the call)
tcp_read_handler(w, pkt) ==
    LET ret == IF w.nrd = 0 THEN w.h.ret1 ELSE w.h.ret2
        w1  == [Log(w, "tcp_read_handler", IF ret THEN "true" ELSE "false", pkt)
                   EXCEPT !.ncb = @ + 1, !.nrd = @ + 1,
                          !.delivered = Append(@, pkt)]
        w2  == IF w1.ncb = 1 THEN React(w1, w1.h.react) ELSE w1
    IN  [w2 EXCEPT !.requeue = ret]

----------------------------------------------------------------------------
\* Link.

is_raw_mode_read(w) == IF w.RAW_MODE_ONLY THEN TRUE ELSE w.raw_mode_read

is_raw_mode_write(w) == IF w.RAW_MODE_ONLY THEN TRUE ELSE w.raw_mode_write

\* set_raw_mode_read written as set_raw_mode: the write flag follows
set_raw_mode_read_both(w, mode) ==
    IF w.RAW_MODE_ONLY
    THEN [w EXCEPT !.raw_mode_read = TRUE, !.raw_mode_write = TRUE]
    ELSE [w EXCEPT !.raw_mode_read = mode, !.raw_mode_write = mode]

set_raw_mode_read(w, mode) ==
    IF w.RAW_MODE_ONLY THEN [w EXCEPT !.raw_mode_read = TRUE]
    ELSE [w EXCEPT !.raw_mode_read = mode]

set_raw_mode_write(w, mode) ==
    IF w.RAW_MODE_ONLY THEN [w EXCEPT !.raw_mode_write = TRUE]
    ELSE [w EXCEPT !.raw_mode_write = mode]

set_raw_mode(w, mode) == set_raw_mode_write(set_raw_mode_read(w, mode), mode)

set_mutate(w, mutate_arg) == [w EXCEPT !.mutate = mutate_arg]

send_queue_empty(w) == w.queue = <<>>

stop(w) == [w EXCEPT !.halt = TRUE]

\* a send of the buffer at the back of the queue
queue_send_back(w) ==
    IF w.queue = <<>> THEN [w EXCEPT !.ub = TRUE]
    ELSE [w EXCEPT !.send_ops =
              Append(@, [buf |-> w.queue[Len(w.queue)],
                         data |-> w.heap[w.queue[Len(w.queue)]]])]

\* socket.async_send(buf.const_buffers_1_clamp(), ...): the operation holds
\* the front buffer and the bytes it offers
queue_send(w) ==
    IF w.queue = <<>> THEN [w EXCEPT !.ub = TRUE]
    ELSE [w EXCEPT !.send_ops =
              Append(@, [buf |-> Head(w.queue), data |-> w.heap[Head(w.queue)]])]

\* new BufferAllocated(): the least id no live buffer has
NewBuf(w) ==
    CHOOSE i \in 1..(Cardinality(DOMAIN w.heap) + 1) :
        /\ i \notin DOMAIN w.heap
        /\ \A j \in 1..(i - 1) : j \in DOMAIN w.heap

\* heap with buffer id holding content c
Store(hp, id, c) ==
    [x \in (DOMAIN hp) \cup {id} |-> IF x = id THEN c ELSE hp[x]]

\* heap without buffer id (its last BufferPtr went away)
Free(hp, id) == [x \in (DOMAIN hp) \ {id} |-> hp[x]]

\* the overflow test with > for >=
send_queue_full_late(w) ==
    w.send_queue_max_size # 0 /\ Len(w.queue) > w.send_queue_max_size

\* send_queue_max_size && queue.size() >= send_queue_max_size
send_queue_full(w) ==
    w.send_queue_max_size # 0 /\ Len(w.queue) >= w.send_queue_max_size

\* the buffer send() fills: the front of the free list, popped, or a new one
acquire(w) ==
    IF w.free_list # <<>>
    THEN [w |-> [w EXCEPT !.free_list = Tail(@)], buf |-> Head(w.free_list)]
    ELSE [w |-> [w EXCEPT !.heap = Store(@, NewBuf(w), <<>>)],
          buf |-> NewBuf(w)]

\* the hook applied before the length is prepended
mutate_then_frame(w, buf) ==
    LET w1 == IF w.mutate
              THEN [Log(w, "pre_send", "", w.heap[buf]) EXCEPT
                       !.heap[buf] = pre_send(@)]
              ELSE w
    IN  IF ~is_raw_mode_write(w1)
        THEN [w1 EXCEPT !.heap[buf] = prepend_size(@)] ELSE w1

\* if (!is_raw_mode_write()) prepend_size; if (mutate) pre_send
frame_and_mutate(w, buf) ==
    LET w1 == IF ~is_raw_mode_write(w)
              THEN [w EXCEPT !.heap[buf] = prepend_size(@)] ELSE w
    IN  IF w1.mutate
        THEN [Log(w1, "pre_send", "", w1.heap[buf]) EXCEPT
                 !.heap[buf] = pre_send(@)]
        ELSE w1

\* a send started for every packet queued
send_always(w) == queue_send(w)

\* if (queue.size() == 1) queue_send()
send_if_idle(w) == IF Len(w.queue) = 1 THEN queue_send(w) ELSE w

\* send() past the halt check
send_active(w, b) ==
    IF send_queue_full(w)
    THEN LET w1 == stats_error(w, "TCP_OVERFLOW")
             w2 == Callback(w1, "tcp_error_handler", "TCP_OVERFLOW")
             w3 == stop(w2)
         IN  [w3 EXCEPT !.ret = FALSE, !.b = b]
    ELSE LET a   == acquire(w)
             old == a.w.heap[a.buf]
             \* buf->swap(b)
             w1  == [a.w EXCEPT !.heap[a.buf] = b]
             w2  == frame_and_mutate(w1, a.buf)
             w3  == [w2 EXCEPT !.queue = Append(@, a.buf)]
             w4  == send_if_idle(w3)
         IN  IF /\ ~is_raw_mode_write(w) /\ Len(b) >= PrefixRange
                /\ w.oversize = "throw"
             \* prepend_size throws: the exception leaves send(), the local
             \* BufferPtr releases the buffer that took the caller's bytes
             THEN [w1 EXCEPT !.heap = Free(@, a.buf), !.ret = FALSE,
                             !.b = old, !.exc = TRUE]
             ELSE [w4 EXCEPT !.ret = TRUE, !.b = old]

\* send() without its halt check
send_unchecked(w, b) == send_active(w, b)

send(w, b) ==
    IF w.halt THEN [w EXCEPT !.ret = FALSE, !.b = b]
    ELSE send_active(w, b)

\* socket.async_receive(...): one more receive operation outstanding
queue_recv(w) == [w EXCEPT !.recv_ops = @ + 1]

start(w) == IF ~w.halt THEN queue_recv(w) ELSE w

\* every popped buffer kept, whatever the size of the free list
recycle_unbounded(w, buf) ==
    [w EXCEPT !.heap[buf] = <<>>, !.free_list = Append(@, buf)]

\* the popped buffer goes back to the free list if there is room
recycle(w, buf) ==
    IF Len(w.free_list) < w.free_list_max_size
    THEN [w EXCEPT !.heap[buf] = <<>>, !.free_list = Append(@, buf)]
    ELSE [w EXCEPT !.heap = Free(@, buf)]

\* a partial write that leaves the buffer where it was
advance_none(w, buf, bytes_sent) == w

\* buf->advance(bytes_sent)
advance(w, buf, bytes_sent) ==
    [w EXCEPT !.heap[buf] = SubSeq(@, bytes_sent + 1, Len(@))]

\* the next send and the notification both
send_next_notifying(w) ==
    Callback(IF w.queue # <<>> THEN queue_send(w) ELSE w,
             "tcp_write_queue_needs_send", "")

\* the end of handle_send: the next send, or the queue has drained
send_next(w) ==
    IF w.queue # <<>> THEN queue_send(w)
    ELSE Callback(w, "tcp_write_queue_needs_send", "")

\* handle_send past the halt check
handle_send_active(w, error, bytes_sent) ==
    IF error
    THEN stop(Callback(stats_error(w, "NETWORK_SEND_ERROR"),
                       "tcp_error_handler", "NETWORK_SEND_ERROR"))
    ELSE IF w.queue = <<>> THEN [w EXCEPT !.ub = TRUE]
    ELSE LET w1   == inc_stat(inc_stat(w, "BYTES_OUT", bytes_sent),
                              "PACKETS_OUT", 1)
             buf  == Head(w1.queue)
             size == Len(w1.heap[buf])
         IN  IF bytes_sent = size
             THEN send_next(recycle([w1 EXCEPT !.queue = Tail(@)], buf))
             ELSE IF bytes_sent < size
             THEN send_next(advance(w1, buf, bytes_sent))
             ELSE stop(Callback(stats_error(w1, "TCP_OVERFLOW"),
                                "tcp_error_handler", "TCP_INTERNAL_ERROR"))

\* handle_send without its halt check
handle_send_unchecked(w, error, bytes_sent) ==
    handle_send_active(w, error, bytes_sent)

handle_send(w, error, bytes_sent) ==
    IF w.halt THEN w ELSE handle_send_active(w, error, bytes_sent)

\* PacketStream::get: the completed packet; the framer starts over
get(ps) == [pkt |-> ps.buffer, ps |-> NewPktStream]

\* the loop of put_pktstream written as an if: one put, the rest of the chunk
\* is left behind
pktstream_once(w, buf) ==
    IF buf = <<>> THEN w
    ELSE LET r == put(w.pktstream, buf, FrameCap)
         IN  IF r.exc THEN [w EXCEPT !.pktstream = r.ps, !.exc = TRUE]
             ELSE IF ready(r.ps)
             THEN tcp_read_handler([w EXCEPT !.pktstream = get(r.ps).ps],
                                   get(r.ps).pkt)
             ELSE [w EXCEPT !.pktstream = r.ps]

RECURSIVE pktstream_loop(_, _)
\* the while loop of put_pktstream
pktstream_loop(w, buf) ==
    IF buf = <<>> THEN w
    ELSE LET r == put(w.pktstream, buf, FrameCap)
         IN  IF r.exc THEN [w EXCEPT !.pktstream = r.ps, !.exc = TRUE]
             ELSE IF ready(r.ps)
             THEN pktstream_loop(
                      tcp_read_handler([w EXCEPT !.pktstream = get(r.ps).ps],
                                       get(r.ps).pkt),
                      r.buf)
             ELSE pktstream_loop([w EXCEPT !.pktstream = r.ps], r.buf)

\* if (mutate) mutate->post_recv(buf)
recv_mutate(w, buf) ==
    IF w.mutate
    THEN [w |-> Log(w, "post_recv", "", buf), buf |-> post_recv(buf)]
    ELSE [w |-> w, buf |-> buf]

put_pktstream(w, buf) ==
    LET w1 == inc_stat(inc_stat([w EXCEPT !.requeue = TRUE, !.exc = FALSE],
                                "BYTES_IN", Len(buf)),
                       "PACKETS_IN", 1)
        m  == recv_mutate(w1, buf)
    IN  pktstream_loop(m.w, m.buf)

\* a receive armed whatever the handler answered
requeue_recv_always(w) == IF ~w.halt THEN queue_recv(w) ELSE w

\* if (!halt && requeue) queue_recv(pfp.release())
requeue_recv(w) == IF ~w.halt /\ w.requeue THEN queue_recv(w) ELSE w

\* end-of-stream taken for a failure of the connection
recv_eof_fatal(w) ==
    stop(Callback(stats_error(w, "NETWORK_RECV_ERROR"),
                  "tcp_error_handler", "NETWORK_RECV_ERROR"))

\* else if (error == asio::error::eof) read_handler->tcp_eof_handler()
recv_eof(w) == Callback(w, "tcp_eof_handler", "")

\* handle_recv past the halt check; error is "none", "eof" or "error", buf
\* holds the bytes_recvd bytes read
handle_recv_active(w, error, buf) ==
    IF error = "none"
    THEN IF ~is_raw_mode_read(w)
         THEN LET w1 == put_pktstream(w, buf)
              IN  IF w1.exc
                  THEN stop(Callback(stats_error(w1, "TCP_SIZE_ERROR"),
                                     "tcp_error_handler", "TCP_SIZE_ERROR"))
                  ELSE requeue_recv(w1)
         ELSE LET m == recv_mutate(w, buf)
              IN  requeue_recv(tcp_read_handler(m.w, m.buf))
    ELSE IF error = "eof" THEN recv_eof(w)
    ELSE stop(Callback(stats_error(w, "NETWORK_RECV_ERROR"),
                       "tcp_error_handler", "NETWORK_RECV_ERROR"))

handle_recv(w, error, buf) ==
    IF w.halt THEN w ELSE handle_recv_active(w, error, buf)

\* size && !RAW_MODE_ONLY; a throw of the framer leaves through inject
inject(w, src) ==
    IF src # <<>> /\ ~w.RAW_MODE_ONLY THEN put_pktstream(w, src)
    ELSE [w EXCEPT !.exc = FALSE]

----------------------------------------------------------------------------
\* The environment.

\* a caller (the application or a callback) calls send(b); an accepted packet
\* is noted with the framing and mutation in force
CallSend(w, b) ==
    LET w1 == send([w EXCEPT !.calls = @ + 1], b)
    IN  IF w1.ret
        THEN [w1 EXCEPT !.sent_log =
                 Append(@, [pkt |-> b, raw |-> is_raw_mode_write(w),
                            mut |-> w.mutate])]
        ELSE w1

\* the handler calls a method of the Link from inside a callback; what the
\* method calls in turn lies between the two marks
Reenter(w, r) == Log(w, "reenter", r, <<>>)

Returned(w) == Log(w, "return", "", <<>>)

\* what a ReadHandler callback does to the Link before it returns
React(w, r) ==
    CASE r = "send" /\ w.calls < w.budget ->
            Returned(CallSend(Reenter(w, r), ReactPkt))
      [] r = "stop" -> Returned(stop(Reenter(w, r)))
      [] r = "start" /\ w.calls < w.budget ->
            Returned(start([Reenter(w, r) EXCEPT !.calls = @ + 1]))
      [] OTHER -> w

\* the behaviours of the ReadHandler during one operation: what it does to
\* the Link in the first callback it gets, what tcp_read_handler returns for
\* the first packet and for the later ones
Handlers(reactions, rets) == [react : reactions, ret1 : rets, ret2 : rets]

AllHandlers == Handlers({"none", "send", "stop", "start"}, BOOLEAN)

\* for an operation that delivers no packet
ErrHandlers == Handlers({"none", "send", "stop", "start"}, {TRUE})

TxHandlers == Handlers({"none", "send", "stop"}, {TRUE})

RxHandlers == Handlers({"none", "stop", "start"}, BOOLEAN)

RxErrHandlers == Handlers({"none", "stop", "start"}, {TRUE})

\* the Link's fields and the environment's records after an operation
Commit(w, op, framed) ==
    /\ halt' = w.halt
    /\ raw_mode_read' = w.raw_mode_read
    /\ raw_mode_write' = w.raw_mode_write
    /\ mutate' = w.mutate
    /\ queue' = w.queue
    /\ free_list' = w.free_list
    /\ pktstream' = w.pktstream
    /\ heap' = w.heap
    /\ send_ops' = w.send_ops
    /\ recv_ops' = w.recv_ops
    /\ rx_framed' = framed
    /\ delivered' = IF framed THEN w.delivered ELSE <<>>
    /\ sent_log' = w.sent_log
    /\ ub' = w.ub
    /\ calls' = w.calls
    /\ trace' = w.trace
    /\ last' = op
    /\ UNCHANGED << RAW_MODE_ONLY, send_queue_max_size, free_list_max_size,
                    budget >>

\* an operation: its name, result, argument, the caller's buffer after it and
\* the error a completion reported
Op(name, ret, arg, b) ==
    [op |-> name, ret |-> ret, arg |-> arg, b |-> b, err |-> "none"]

With(h) == [World EXCEPT !.h = h]

\* the record at the start of one more environment call
Called == [World EXCEPT !.calls = @ + 1]

\* Link::Link: halt(false), set_raw_mode(false), empty queue and free list
InitLink(n) ==
    /\ budget = n
    /\ RAW_MODE_ONLY \in BOOLEAN
    /\ send_queue_max_size \in {0, SendQueueMax}
    /\ free_list_max_size = FreeListMax
    /\ halt = FALSE
    /\ raw_mode_read = RAW_MODE_ONLY
    /\ raw_mode_write = RAW_MODE_ONLY
    /\ mutate = FALSE
    /\ queue = <<>>
    /\ free_list = <<>>
    /\ pktstream = NewPktStream
    /\ heap = <<>>
    /\ send_ops = <<>>
    /\ recv_ops = 0
    /\ wire_out = <<>>
    /\ peer_stream = <<>>
    /\ peer_closed = FALSE
    /\ delivered = <<>>
    /\ sent_log = <<>>
    /\ peer_pkts = <<>>
    /\ rx_framed = TRUE
    /\ last = Op("Link", FALSE, <<>>, <<>>)
    /\ trace = <<>>
    /\ ub = FALSE
    /\ calls = 0

Init == InitLink(MaxCalls)

\* the history of the inbound stream when an operation read none of it
KeepRx == /\ peer_pkts' = IF rx_framed' THEN peer_pkts ELSE <<>>
          /\ UNCHANGED << peer_stream, peer_closed >>

\* the application calls send() with a packet of n bytes
Send(n, h) ==
    /\ calls < budget
    /\ \E w \in {CallSend(With(h), Pkt(n, calls + 1))} :
           Commit(w, Op("send", w.ret, Pkt(n, calls + 1), w.b), rx_framed)
    /\ KeepRx
    /\ UNCHANGED wire_out

\* the application calls send() with a packet of n bytes, n too long for
\* the prefix or not; o is what prepend_size does with one too long
SendBig(n, h, o) ==
    /\ calls < budget
    /\ \E w \in {CallSend([With(h) EXCEPT !.oversize = o],
                           Pkt(n, calls + 1))} :
           Commit(w, Op("send", w.ret, Pkt(n, calls + 1), w.b), rx_framed)
    /\ KeepRx
    /\ UNCHANGED wire_out

Start ==
    /\ calls < budget
    /\ Commit(start(Called), Op("start", FALSE, <<>>, <<>>), rx_framed)
    /\ KeepRx
    /\ UNCHANGED wire_out

Stop ==
    /\ calls < budget
    /\ Commit(stop(Called), Op("stop", FALSE, <<>>, <<>>), rx_framed)
    /\ KeepRx
    /\ UNCHANGED wire_out

SetRawModeRead(mode) ==
    /\ calls < budget
    /\ Commit(set_raw_mode_read(Called, mode),
              Op("set_raw_mode_read", mode, <<>>, <<>>), rx_framed)
    /\ KeepRx
    /\ UNCHANGED wire_out

SetRawModeWrite(mode) ==
    /\ calls < budget
    /\ Commit(set_raw_mode_write(Called, mode),
              Op("set_raw_mode_write", mode, <<>>, <<>>), rx_framed)
    /\ KeepRx
    /\ UNCHANGED wire_out

SetMutate(m) ==
    /\ calls < budget
    /\ Commit(set_mutate(Called, m), Op("set_mutate", m, <<>>, <<>>), rx_framed)
    /\ KeepRx
    /\ UNCHANGED wire_out

\* what the application injects: nothing, an empty packet's prefix, a prefix
\* larger than the frame capacity
InjectInputs == { <<>>, <<0, 0>>, <<0, FrameCap + 1>> }

Inject(src, h) ==
    /\ calls < budget
    /\ \E w \in {inject([With(h) EXCEPT !.calls = @ + 1], src)} :
           Commit(w, Op("inject", w.exc, src, <<>>),
                  rx_framed /\ (src = <<>> \/ RAW_MODE_ONLY))
    /\ KeepRx
    /\ UNCHANGED wire_out

\* the peer writes a framed packet of n payload bytes to the connection
PeerSend(n) ==
    /\ calls < budget
    /\ ~peer_closed
    /\ calls' = calls + 1
    /\ peer_stream' = peer_stream \o prepend_size(Pkt(n, Len(peer_pkts) + 1))
    /\ rx_framed' = (rx_framed /\ n <= FrameCap)
    /\ peer_pkts' = IF rx_framed'
                    THEN Append(peer_pkts, Pkt(n, Len(peer_pkts) + 1))
                    ELSE <<>>
    /\ delivered' = IF rx_framed' THEN delivered ELSE <<>>
    /\ UNCHANGED << RAW_MODE_ONLY, send_queue_max_size, free_list_max_size,
                    budget, halt, raw_mode_read, raw_mode_write, mutate,
                    queue, free_list, pktstream, heap, send_ops, recv_ops,
                    wire_out, peer_closed, sent_log, ub >>
    /\ last' = Op("peer", FALSE, <<>>, <<>>)
    /\ trace' = <<>>

\* the oldest async_send completes: with an error, or having written
\* bytes_sent bytes of those offered (or reporting more than were offered)
SendComplete(error, bytes_sent, h) ==
    /\ send_ops # <<>>
    /\ LET op == Head(send_ops)
           n  == Len(op.data)
       IN  /\ \/ error /\ bytes_sent = 0
              \/ ~error /\ bytes_sent >= Min(1, n)
           /\ bytes_sent <= n + 1
           /\ wire_out' = wire_out \o SubSeq(op.data, 1, Min(bytes_sent, n))
           /\ \E w \in {handle_send([With(h) EXCEPT !.send_ops = Tail(@)],
                                   error, bytes_sent)} :
                  Commit(w, Op("handle_send", ~error, <<bytes_sent>>, <<>>),
                         rx_framed)
    /\ KeepRx

\* an async_receive completes with the next n bytes of the stream
RecvComplete(n, h) ==
    /\ recv_ops > 0
    /\ n \in 1..Min(MaxChunk, Len(peer_stream))
    /\ peer_stream' = SubSeq(peer_stream, n + 1, Len(peer_stream))
    /\ \E w \in {handle_recv([With(h) EXCEPT !.recv_ops = @ - 1], "none",
                            SubSeq(peer_stream, 1, n))} :
           Commit(w, Op("handle_recv", TRUE, SubSeq(peer_stream, 1, n), <<>>),
                  rx_framed /\ ~halt /\ ~raw_mode_read /\ ~mutate)
    /\ peer_pkts' = IF rx_framed' THEN peer_pkts ELSE <<>>
    /\ UNCHANGED << wire_out, peer_closed >>

\* an async_receive completes with end-of-stream or another error
RecvFail(error, h) ==
    /\ recv_ops > 0
    /\ peer_stream = <<>>
    /\ peer_closed' = TRUE
    /\ \E w \in {handle_recv([With(h) EXCEPT !.recv_ops = @ - 1], error, <<>>)} :
           Commit(w, [Op("handle_recv", FALSE, <<>>, <<>>) EXCEPT !.err = error],
                  rx_framed)
    /\ UNCHANGED << wire_out, peer_stream, peer_pkts >>

\* every longest write the model tries
MaxWrite == MaxPktLen + 3

Next ==
    \/ \E n \in 0..MaxPktLen, h \in ErrHandlers : Send(n, h)
    \/ Start
    \/ Stop
    \/ \E mode \in BOOLEAN : SetRawModeRead(mode)
    \/ \E mode \in BOOLEAN : SetRawModeWrite(mode)
    \/ \E m \in BOOLEAN : SetMutate(m)
    \/ \E src \in InjectInputs, h \in ErrHandlers : Inject(src, h)
    \/ \E n \in 0..MaxPeerLen : PeerSend(n)
    \/ \E error \in BOOLEAN, n \in 0..MaxWrite, h \in ErrHandlers :
          SendComplete(error, n, h)
    \/ \E n \in 1..MaxChunk, h \in AllHandlers : RecvComplete(n, h)
    \/ \E error \in {"eof", "error"}, h \in ErrHandlers : RecvFail(error, h)

Spec == Init /\ [][Next]_vars

\* the send side alone, with one more call
NextTx ==
    \/ \E n \in 0..MaxPktLen, h \in TxHandlers : Send(n, h)
    \/ Stop
    \/ \E mode \in BOOLEAN : SetRawModeWrite(mode)
    \/ \E m \in BOOLEAN : SetMutate(m)
    \/ \E error \in BOOLEAN, n \in 0..MaxWrite, h \in TxHandlers :
          SendComplete(error, n, h)

SpecTx == InitLink(MaxCalls + 1) /\ [][NextTx]_vars

\* the receive side alone, with one more call
NextRx ==
    \/ Start
    \/ Stop
    \/ \E mode \in BOOLEAN : SetRawModeRead(mode)
    \/ \E m \in BOOLEAN : SetMutate(m)
    \/ \E src \in InjectInputs, h \in RxErrHandlers : Inject(src, h)
    \/ \E n \in 0..MaxPeerLen : PeerSend(n)
    \/ \E n \in 1..MaxChunk, h \in RxHandlers : RecvComplete(n, h)
    \/ \E error \in {"eof", "error"}, h \in RxErrHandlers : RecvFail(error, h)

SpecRx == InitLink(MaxCalls + 1) /\ [][NextRx]_vars

\* the send side where the connection completes every send it was given
SendCompletes ==
    \E error \in BOOLEAN, n \in 0..MaxWrite, h \in TxHandlers :
        SendComplete(error, n, h)

SpecTxFair ==
    InitLink(MaxCalls) /\ [][NextTx]_vars /\ WF_vars(SendCompletes)

\* the send side with packets at the limit of the 2-byte prefix; a send
\* completes with an error or whole
NextBig ==
    \/ \E n \in {1, PrefixRange - 1, PrefixRange},
          h \in Handlers({"none"}, {TRUE}),
          o \in {"wrap", "throw"} : SendBig(n, h, o)
    \/ Stop
    \/ \E mode \in BOOLEAN : SetRawModeWrite(mode)
    \/ \E m \in BOOLEAN : SetMutate(m)
    \/ \E error \in BOOLEAN,
          n \in (IF send_ops = <<>> THEN {}
                 ELSE {0, Len(Head(send_ops).data)}),
          h \in TxHandlers : SendComplete(error, n, h)

SpecBig == InitLink(MaxCalls - 1) /\ [][NextBig]_vars

----------------------------------------------------------------------------
\* Reading the last operation's calls.

Range(sq) == { sq[i] : i \in 1..Len(sq) }

EvSel(tr, cb) == SelectSeq(tr, LAMBDA e : e.cb = cb)

ArgsOf(tr, cb) == [i \in 1..Len(EvSel(tr, cb)) |-> EvSel(tr, cb)[i].data]

HasEv(tr, cb, reason) ==
    \E i \in 1..Len(tr) : tr[i].cb = cb /\ tr[i].reason = reason

\* the step is operation op
IsStep(op) == last'.op = op /\ vars' # vars

IsPrefix(a, b) == Len(a) <= Len(b) /\ a = SubSeq(b, 1, Len(a))

\* a packet behind its 2-byte big-endian length
Framed(p) == << Len(p) \div 256, Len(p) % 256 >> \o p

\* the bytes an accepted packet is to put on the connection, before the
\* hook and after it
Unmutated(e) == IF e.raw THEN e.pkt ELSE Framed(e.pkt)

OnWire(e) ==
    IF e.mut THEN [i \in 1..Len(Unmutated(e)) |-> 255 - Unmutated(e)[i]]
    ELSE Unmutated(e)

ExpectedOut == Concat([i \in 1..Len(sent_log) |-> OnWire(sent_log[i])])

\* the bytes still queued, front first
Pending == Concat([i \in 1..Len(queue) |-> heap[queue[i]]])

----------------------------------------------------------------------------
\* C1: on a link that is not halted, the bytes written to the connection
\* followed by the bytes still queued are exactly the accepted packets in
\* send() order, each framed unless write-raw was on (and mutated if a hook
\* was installed); nothing is ever written twice or out of order; and the
\* connection completing its sends, a link that is not halted gets all of
\* them written.
C1_FifoByteForByte ==
    /\ [](~halt => wire_out \o Pending = ExpectedOut)
    /\ []IsPrefix(wire_out, ExpectedOut)
    /\ []<>(halt \/ wire_out = ExpectedOut)

\* two packets, the first of them framed, went out whole, the last
\* completion writing the rest of a packet after a partial write
C1_Witness ==
    /\ ~halt /\ queue = <<>> /\ Len(sent_log) >= 2
    /\ ~sent_log[1].raw
    /\ wire_out = ExpectedOut
    /\ last.op = "handle_send"
    /\ \E i \in 1..Len(trace) :
          /\ trace[i].cb = "stats.inc_stat" /\ trace[i].reason = "BYTES_OUT"
          /\ trace[i].data[1] < Len(OnWire(sent_log[Len(sent_log)]))

\* the packets of pkts whose frames lie wholly in the first n stream bytes
RECURSIVE Whole(_, _)
Whole(pkts, n) ==
    IF pkts = <<>> \/ n < 2 + Len(Head(pkts)) THEN <<>>
    ELSE <<Head(pkts)>> \o Whole(Tail(pkts), n - 2 - Len(Head(pkts)))

StreamLen(pkts) == Len(Concat([i \in 1..Len(pkts) |-> Framed(pkts[i])]))

\* C2: while every byte read was a framed packet's and went through the
\* framer, whatever the chunks were, the ReadHandler has been given exactly
\* the packets whose frames have been read completely, in the peer's order.
C2_Reassembly ==
    rx_framed =>
        delivered = Whole(peer_pkts, StreamLen(peer_pkts) - Len(peer_stream))

\* one chunk completed a packet begun in an earlier chunk and a second one
C2_Witness ==
    /\ rx_framed /\ peer_stream = <<>>
    /\ Len(peer_pkts) = 2 /\ delivered = peer_pkts
    /\ Len(delivered[1]) >= 1
    /\ last.op = "handle_recv"
    /\ Len(EvSel(trace, "tcp_read_handler")) = 2

\* C3: at most one async_send is outstanding.
C3_OneSend == Len(send_ops) <= 1

\* the write-queue-drained callback called send(), which started the one
\* send outstanding
C3_Witness ==
    /\ last.op = "handle_send"
    /\ HasEv(trace, "tcp_write_queue_needs_send", "")
    /\ Len(send_ops) = 1

\* C4: at most one async_receive is outstanding.
C4_OneRecv == recv_ops <= 1

\* C5: with send_queue_max_size = N > 0 the queue never holds more than N
\* buffers; send() with N buffers queued returns false, enqueues nothing,
\* tells SessionStats and the error callback TCP_OVERFLOW and halts the link;
\* send() on the halted link returns false.
C5_Overflow ==
    [][ /\ send_queue_max_size > 0 => Len(queue') <= send_queue_max_size
        /\ ( /\ IsStep("send") /\ ~halt
             /\ send_queue_max_size > 0
             /\ Len(queue) >= send_queue_max_size )
           => /\ ~last'.ret
              /\ queue' = queue
              /\ HasEv(trace', "stats.error", "TCP_OVERFLOW")
              /\ HasEv(trace', "tcp_error_handler", "TCP_OVERFLOW")
              /\ halt'
        /\ (IsStep("send") /\ halt) => ~last'.ret
      ]_vars

\* send() has just overflowed a full queue
C5_Witness ==
    /\ last.op = "send" /\ ~last.ret /\ halt
    /\ send_queue_max_size > 0 /\ Len(queue) = send_queue_max_size
    /\ HasEv(trace, "tcp_error_handler", "TCP_OVERFLOW")

\* C6: send() on a halted link returns false, leaves the caller's packet, the
\* queue, the free list and every buffer as they were, starts no send and
\* calls neither the ReadHandler, SessionStats nor the hook.
C6_HaltedSend ==
    [][ (IsStep("send") /\ halt)
           => /\ ~last'.ret
              /\ last'.b = last'.arg
              /\ queue' = queue /\ free_list' = free_list /\ heap' = heap
              /\ send_ops' = send_ops
              /\ trace' = <<>>
      ]_vars

\* send() of a non-empty packet was refused by a halted link with a packet
\* queued
C6_Witness ==
    /\ last.op = "send" /\ ~last.ret /\ trace = <<>> /\ halt
    /\ last.arg # <<>> /\ queue # <<>>

\* C7: once halt is set it stays set; no async_send and no async_receive is
\* started any more, whatever completes; stop() changes nothing and start()
\* arms no receive.
C7_HaltAbsorbing ==
    [][ halt
           => /\ halt'
              /\ send_ops' \in {send_ops} \cup
                     (IF send_ops = <<>> THEN {} ELSE {Tail(send_ops)})
              /\ recv_ops' <= recv_ops
              /\ IsStep("start") => recv_ops' = recv_ops
              /\ IsStep("stop")
                    => UNCHANGED << raw_mode_read, raw_mode_write, mutate,
                                    queue, free_list, pktstream, heap,
                                    send_ops, recv_ops >>
      ]_vars

\* the completion of a send started before the halt found the link halted
C7_Witness ==
    /\ halt /\ last.op = "handle_send" /\ last.ret /\ trace = <<>>
    /\ queue # <<>> /\ send_ops = <<>>

\* the free list is within its bound, holds empty buffers, none of them
\* twice and none that is queued
PoolOK(fl, hp, q, max) ==
    /\ Len(fl) <= max
    /\ \A i \in 1..Len(fl) : hp[fl[i]] = <<>>
    /\ \A i, j \in 1..Len(fl) : fl[i] = fl[j] => i = j
    /\ Range(fl) \cap Range(q) = {}

\* C8: the free list never holds more than free_list_max_size buffers, each
\* of them empty and none of them queued; a buffer enters it only in a send
\* completion that wrote all that was left of it and popped it.
C8_Pool ==
    [][ /\ PoolOK(free_list', heap', queue', free_list_max_size)
        /\ \A id \in Range(free_list') \ Range(free_list) :
              /\ IsStep("handle_send")
              /\ queue # <<>> /\ id = Head(queue)
              /\ Len(wire_out') - Len(wire_out) = Len(heap[id])
              /\ id \notin Range(queue')
      ]_vars

\* a completed buffer found the free list full and was dropped
C8_Witness ==
    /\ last.op = "handle_send" /\ last.ret /\ ~halt
    /\ Len(free_list) = free_list_max_size
    /\ Cardinality(DOMAIN heap) = Len(free_list) + Len(queue)
    /\ Len(wire_out) >= 2
    /\ queue = <<>> /\ Len(sent_log) = 2 /\ wire_out = ExpectedOut

\* C9: on a link that is not raw-only each setter changes its own flag and
\* nothing else of the link; what send() enqueues follows from write-raw (and
\* the hook) whatever read-raw is; a received chunk is handed over whole when
\* read-raw is on and goes to the framer when it is off, whatever write-raw
\* is.
C9_RawModes ==
    [][ ~RAW_MODE_ONLY
           => /\ IsStep("set_raw_mode_read")
                    => /\ raw_mode_read' = last'.ret
                       /\ UNCHANGED << raw_mode_write, halt, mutate, queue,
                                       free_list, pktstream, heap, send_ops,
                                       recv_ops >>
              /\ IsStep("set_raw_mode_write")
                    => /\ raw_mode_write' = last'.ret
                       /\ UNCHANGED << raw_mode_read, halt, mutate, queue,
                                       free_list, pktstream, heap, send_ops,
                                       recv_ops >>
              /\ (IsStep("send") /\ last'.ret)
                    => heap'[queue'[Len(queue')]] =
                          OnWire([pkt |-> last'.arg, raw |-> raw_mode_write,
                                  mut |-> mutate])
              /\ (IsStep("handle_recv") /\ last'.ret /\ ~halt)
                    => IF raw_mode_read
                       THEN /\ ArgsOf(trace', "tcp_read_handler") =
                                  << IF mutate
                                     THEN [i \in 1..Len(last'.arg) |->
                                              255 - last'.arg[i]]
                                     ELSE last'.arg >>
                            /\ pktstream' = pktstream
                            /\ ~HasEv(trace', "stats.inc_stat", "BYTES_IN")
                       ELSE /\ HasEv(trace', "stats.inc_stat", "BYTES_IN")
                            /\ \A i \in 1..Len(trace') :
                                  trace'[i].cb = "tcp_read_handler"
                                     => Len(trace'[i].data) <= FrameCap
      ]_vars

\* the two flags differ and a packet was accepted by send()
C9_Witness ==
    /\ ~RAW_MODE_ONLY /\ raw_mode_read /\ ~raw_mode_write
    /\ last.op = "send" /\ last.ret
    /\ heap[queue[Len(queue)]] = Framed(last.arg)

\* the position of the first call cb in tr, 0 if there is none
FirstAt(tr, cb) ==
    IF \E i \in 1..Len(tr) : tr[i].cb = cb
    THEN CHOOSE i \in 1..Len(tr) :
            tr[i].cb = cb /\ \A j \in 1..(i - 1) : tr[j].cb # cb
    ELSE 0

\* C10: pre_send is called once for each packet send() accepts while a hook
\* is installed, with the framed packet, and in no other case (not when the
\* rest of a partly written buffer is sent); post_recv is called once for
\* each chunk a receive completion hands to the link, with the chunk, before
\* the framer or the ReadHandler sees any of it.
C10_HookOnce ==
    [][ /\ LET new == SubSeq(sent_log', Len(sent_log) + 1, Len(sent_log'))
               mut == SelectSeq(new, LAMBDA e : e.mut)
           IN  ArgsOf(trace', "pre_send") =
                  [i \in 1..Len(mut) |-> Unmutated(mut[i])]
        /\ (IsStep("send") /\ last'.ret /\ mutate)
              => heap'[queue'[Len(queue')]] =
                    [i \in 1..Len(trace'[1].data) |-> 255 - trace'[1].data[i]]
        /\ (IsStep("handle_recv") /\ last'.ret /\ ~halt)
              => IF mutate
                 THEN /\ ArgsOf(trace', "post_recv") = << last'.arg >>
                      /\ FirstAt(trace', "tcp_read_handler") = 0
                            \/ FirstAt(trace', "post_recv")
                                  < FirstAt(trace', "tcp_read_handler")
                      /\ raw_mode_read
                            => ArgsOf(trace', "tcp_read_handler") =
                                  << [i \in 1..Len(last'.arg) |->
                                         255 - last'.arg[i]] >>
                 ELSE ArgsOf(trace', "post_recv") = <<>>
      ]_vars

\* a framed packet went through pre_send and the rest of it was sent after a
\* partial write
C10_Witness ==
    /\ mutate /\ ~halt /\ last.op = "handle_send" /\ last.ret
    /\ queue # <<>> /\ Len(sent_log) >= 1
    /\ sent_log[Len(sent_log)].mut /\ ~sent_log[Len(sent_log)].raw
    /\ Len(heap[Head(queue)]) < Len(OnWire(sent_log[Len(sent_log)]))
    /\ Len(send_ops) = 1

----------------------------------------------------------------------------
\* The calls of an operation apart from those a re-entered method made, and
\* those the re-entered method made.

Top(tr) ==
    IF FirstAt(tr, "reenter") = 0 THEN tr
    ELSE SubSeq(tr, 1, FirstAt(tr, "reenter") - 1)
            \o SubSeq(tr, FirstAt(tr, "return") + 1, Len(tr))

Nested(tr) ==
    IF FirstAt(tr, "reenter") = 0 THEN <<>>
    ELSE SubSeq(tr, FirstAt(tr, "reenter") + 1, FirstAt(tr, "return") - 1)

\* the handler re-entered method r during the operation
Reacted(tr, r) == HasEv(tr, "reenter", r)

\* C11: end-of-stream reported to a link that is not halted calls
\* tcp_eof_handler once, calls neither tcp_error_handler nor stats->error,
\* sets halt only if the handler itself stopped or overflowed the link from
\* the callback, and arms no receive (one armed is the handler's start());
\* after it send() is still accepted while the queue has room and a send
\* completion still writes the front buffer's bytes.
C11_EofNotFatal ==
    [][ /\ (IsStep("handle_recv") /\ last'.err = "eof" /\ ~halt)
              => /\ Len(EvSel(Top(trace'), "tcp_eof_handler")) = 1
                 /\ EvSel(Top(trace'), "tcp_error_handler") = <<>>
                 /\ EvSel(Top(trace'), "stats.error") = <<>>
                 /\ halt' => \/ Reacted(trace', "stop")
                             \/ HasEv(Nested(trace'), "tcp_error_handler",
                                      "TCP_OVERFLOW")
                 /\ recv_ops' = recv_ops - 1
                                   + (IF Reacted(trace', "start") THEN 1 ELSE 0)
                 /\ (Reacted(trace', "send") /\ queue = <<>>)
                       => Len(queue') = 1 /\ Len(send_ops') = 1
        /\ (IsStep("send") /\ peer_closed /\ ~halt
               /\ ~(send_queue_max_size # 0
                      /\ Len(queue) >= send_queue_max_size))
              => last'.ret /\ Len(queue') = Len(queue) + 1 /\ ~halt'
        /\ (IsStep("handle_send") /\ peer_closed /\ ~halt /\ last'.ret
               /\ last'.arg[1] <= Len(heap[Head(queue)]))
              => wire_out' = wire_out
                               \o SubSeq(heap[Head(queue)], 1, last'.arg[1])
      ]_vars

\* end-of-stream arrived with a packet queued and the link went on: the
\* packet was then written whole
C11_Witness ==
    /\ peer_closed /\ ~halt /\ recv_ops = 0
    /\ last.op = "handle_send" /\ last.ret
    /\ sent_log # <<>> /\ queue = <<>> /\ wire_out = ExpectedOut
    /\ Len(wire_out) >= 3

\* whether the framer, in state ps, refuses a length prefix met in buf
RECURSIVE FramerThrows(_, _)
FramerThrows(ps, buf) ==
    IF buf = <<>> THEN FALSE
    ELSE LET r == put(ps, buf, FrameCap)
         IN  IF r.exc THEN TRUE
             ELSE FramerThrows(IF ready(r.ps) THEN get(r.ps).ps ELSE r.ps,
                               r.buf)

\* the bytes of a received chunk as the framer or the handler gets them
AfterHook(buf) == IF mutate THEN [i \in 1..Len(buf) |-> 255 - buf[i]] ELSE buf

\* among the calls tr, stats->error was called once, with kind, then
\* tcp_error_handler once, with reason
FatalReport(tr, kind, reason) ==
    /\ Len(EvSel(tr, "stats.error")) = 1
    /\ Len(EvSel(tr, "tcp_error_handler")) = 1
    /\ EvSel(tr, "stats.error")[1].reason = kind
    /\ EvSel(tr, "tcp_error_handler")[1].reason = reason
    /\ FirstAt(tr, "stats.error") < FirstAt(tr, "tcp_error_handler")

\* the reasons the five fatal conditions give the error callback
FatalReasons ==
    << "TCP_OVERFLOW", "NETWORK_SEND_ERROR", "NETWORK_RECV_ERROR",
       "TCP_SIZE_ERROR", "TCP_INTERNAL_ERROR" >>

OverReport ==
    /\ IsStep("handle_send") /\ ~halt /\ last'.ret
    /\ last'.arg[1] > Len(heap[Head(queue)])

\* what an over-reported send leaves behind, the error's names apart: the
\* link halted, the front buffer where it was and as long as it was, no send
\* started and no tcp_write_queue_needs_send
C13_OverReportHalts ==
    [][ OverReport
           => /\ halt'
              /\ queue' # <<>> /\ Head(queue') = Head(queue)
              /\ heap'[Head(queue)] = heap[Head(queue)]
              /\ send_ops' = <<>>
              /\ ~HasEv(trace', "tcp_write_queue_needs_send", "")
              /\ Len(EvSel(Top(trace'), "tcp_error_handler")) = 1
              /\ EvSel(Top(trace'), "tcp_error_handler")[1].reason
                    \notin {"TCP_OVERFLOW", "NETWORK_SEND_ERROR"}
      ]_vars

\* C13: a send completion that reports more bytes than the front buffer
\* holds, on a link that is not halted, halts the link, neither pops nor
\* advances the front buffer, starts no send, does not call
\* tcp_write_queue_needs_send, and is reported as an error of its own: the
\* reason given to tcp_error_handler and the kind given to stats->error both
\* differ from those of an overflow and of a failed send.
C13_OverReportDistinct ==
    [][ OverReport
           => /\ halt'
              /\ queue' # <<>> /\ Head(queue') = Head(queue)
              /\ heap'[Head(queue)] = heap[Head(queue)]
              /\ send_ops' = <<>>
              /\ ~HasEv(trace', "tcp_write_queue_needs_send", "")
              /\ Len(EvSel(Top(trace'), "tcp_error_handler")) = 1
              /\ EvSel(Top(trace'), "tcp_error_handler")[1].reason
                    \notin {"TCP_OVERFLOW", "NETWORK_SEND_ERROR"}
              /\ Len(EvSel(Top(trace'), "stats.error")) = 1
              /\ EvSel(Top(trace'), "stats.error")[1].reason
                    \notin {"TCP_OVERFLOW", "NETWORK_SEND_ERROR"}
      ]_vars

\* the calls of tr made after the method the handler re-entered returned
AfterReturn(tr) == SubSeq(tr, FirstAt(tr, "return") + 1, Len(tr))

\* the method the handler re-entered left the link halted: stop(), or a
\* send() that overflowed
HaltedInside(tr) ==
    \/ Reacted(tr, "stop")
    \/ HasEv(Nested(tr), "tcp_error_handler", "TCP_OVERFLOW")

\* C14: once the link is halted the ReadHandler gets no packet and no other
\* callback and SessionStats no update: an operation on a halted link (a
\* completion, inject(), any call) makes no such call, and an operation
\* during which the handler halted the link makes none after that.
C14_HaltedSilent ==
    [][ /\ halt => trace' = <<>>
        /\ HaltedInside(trace')
              => \A i \in 1..Len(AfterReturn(trace')) :
                    AfterReturn(trace')[i].cb
                       \notin {"tcp_read_handler", "tcp_error_handler",
                               "tcp_eof_handler", "tcp_write_queue_needs_send",
                               "stats.inc_stat", "stats.error"}
      ]_vars

\* the part of C14 about the operations that check halt: send(), start(),
\* stop(), the setters and both completions on a halted link make no call
C14_HaltedChecked ==
    [][ (halt /\ ~IsStep("inject")) => trace' = <<>> ]_vars

\* the packets the framer, in state ps, completes from buf, in order
RECURSIVE FramerPackets(_, _)
FramerPackets(ps, buf) ==
    IF buf = <<>> THEN <<>>
    ELSE LET r == put(ps, buf, FrameCap)
         IN  IF r.exc THEN <<>>
             ELSE IF ready(r.ps)
             THEN << get(r.ps).pkt >> \o FramerPackets(get(r.ps).ps, r.buf)
             ELSE FramerPackets(r.ps, r.buf)

\* what the handler answered to the last tcp_read_handler of tr, true if
\* there was none
LastSignal(tr) ==
    LET rd == EvSel(tr, "tcp_read_handler")
    IN  rd = <<>> \/ rd[Len(rd)].reason = "true"

\* C15: a successful receive completion on a link that is not halted and
\* not read-raw hands tcp_read_handler every packet the chunk completes, in
\* framing order, whatever the handler answered for the earlier ones; it
\* arms a new receive if and only if the link is not halted at the end and
\* the handler's answer for the last packet of the pass was true, the
\* answer counting as true when no packet was completed (a receive the
\* handler armed itself by start() comes on top).
C15_LastSignal ==
    [][ (IsStep("handle_recv") /\ last'.ret /\ ~halt
            /\ ~(RAW_MODE_ONLY \/ raw_mode_read))
           => /\ ~FramerThrows(pktstream, AfterHook(last'.arg))
                    => ArgsOf(trace', "tcp_read_handler") =
                          FramerPackets(pktstream, AfterHook(last'.arg))
              /\ recv_ops' = recv_ops - 1
                    + (IF Reacted(trace', "start") THEN 1 ELSE 0)
                    + (IF ~halt' /\ LastSignal(trace') THEN 1 ELSE 0)
      ]_vars

\* one chunk completed two packets, the handler answered false for the
\* first and true for the second, and a receive is armed again
C15_Witness ==
    /\ last.op = "handle_recv" /\ last.ret /\ ~halt
    /\ ~(RAW_MODE_ONLY \/ raw_mode_read)
    /\ Len(EvSel(trace, "tcp_read_handler")) = 2
    /\ EvSel(trace, "tcp_read_handler")[1].reason = "false"
    /\ EvSel(trace, "tcp_read_handler")[2].reason = "true"
    /\ ~Reacted(trace, "start")
    /\ recv_ops = 1

\* a chunk given to handle_recv holds a length prefix the framer refuses
RecvOversize ==
    /\ IsStep("handle_recv") /\ last'.ret /\ ~halt
    /\ ~(RAW_MODE_ONLY \/ raw_mode_read)
    /\ FramerThrows(pktstream, AfterHook(last'.arg))

\* bytes given to inject() hold a length prefix the framer refuses
InjectOversize ==
    /\ IsStep("inject") /\ ~halt /\ ~RAW_MODE_ONLY
    /\ FramerThrows(pktstream, AfterHook(last'.arg))

\* the link is halted, SessionStats and the error callback were told of the
\* size error, no packet longer than the frame capacity was delivered
SizeErrorHandled ==
    /\ halt'
    /\ HasEv(trace', "stats.error", "TCP_SIZE_ERROR")
    /\ HasEv(trace', "tcp_error_handler", "TCP_SIZE_ERROR")
    /\ \A i \in 1..Len(trace') :
          trace'[i].cb = "tcp_read_handler"
             => Len(trace'[i].data) <= FrameCap

\* the part of C16 about receive completions
C16_RecvOversize ==
    [][ RecvOversize
           => /\ SizeErrorHandled
              /\ recv_ops' = recv_ops - 1
                    + (IF Reacted(trace', "start") THEN 1 ELSE 0)
      ]_vars

\* C16: whenever the framer meets a length prefix larger than the frame
\* capacity, in a received chunk or in the bytes given to inject(), the
\* link ends up halted, SessionStats records a size error, the error
\* callback is called, no receive is armed and the oversized packet is not
\* delivered.
C16_Oversize ==
    [][ /\ RecvOversize
              => /\ SizeErrorHandled
                 /\ recv_ops' = recv_ops - 1
                       + (IF Reacted(trace', "start") THEN 1 ELSE 0)
        /\ InjectOversize
              => /\ SizeErrorHandled
                 /\ recv_ops' = recv_ops
                       + (IF Reacted(trace', "start") THEN 1 ELSE 0)
      ]_vars

\* C17: a send completion without error that reports no more than the
\* front buffer holds, on a link that is not halted, does exactly one of two
\* things: if the queue is not empty afterwards (a partial write, or more
\* buffers queued) it starts a send for the front buffer and does not call
\* tcp_write_queue_needs_send; if the queue is empty it calls
\* tcp_write_queue_needs_send once and starts no send itself (a send
\* outstanding afterwards is the one the handler's own send() started).
C17_NextOrDrained ==
    [][ (IsStep("handle_send") /\ ~halt /\ last'.ret
            /\ last'.arg[1] <= Len(heap[Head(queue)]))
           => IF last'.arg[1] < Len(heap[Head(queue)]) \/ Len(queue) > 1
              THEN /\ queue' # <<>>
                   /\ Head(queue') = IF last'.arg[1] < Len(heap[Head(queue)])
                                     THEN Head(queue) ELSE queue[2]
                   /\ send_ops' = << [buf  |-> Head(queue'),
                                      data |-> heap'[Head(queue')]] >>
                   /\ ~HasEv(trace', "tcp_write_queue_needs_send", "")
              ELSE /\ Len(EvSel(trace', "tcp_write_queue_needs_send")) = 1
                   /\ Len(send_ops') = IF Reacted(trace', "send") THEN 1 ELSE 0
      ]_vars

\* a partial write was followed by a send of the rest, whose completion
\* emptied the queue and notified the handler
C17_Witness ==
    /\ last.op = "handle_send" /\ last.ret /\ ~halt
    /\ Len(EvSel(trace, "tcp_write_queue_needs_send")) = 1
    /\ ~Reacted(trace, "send")
    /\ queue = <<>> /\ send_ops = <<>>
    /\ Len(sent_log) = 1 /\ last.arg[1] < Len(wire_out)

\* the amounts the operation added to a counter of SessionStats
IncsOf(tr, counter) ==
    LET inc == SelectSeq(tr, LAMBDA e : e.cb = "stats.inc_stat"
                                          /\ e.reason = counter)
    IN  [i \in 1..Len(inc) |-> inc[i].data[1]]

\* what the code counts: every send completion without error on a link
\* that is not halted adds 1 to PACKETS_OUT and bytes_sent to BYTES_OUT
C18_CountsCompletions ==
    [][ (IsStep("handle_send") /\ ~halt)
           => IF last'.ret
              THEN /\ IncsOf(trace', "PACKETS_OUT") = << 1 >>
                   /\ IncsOf(trace', "BYTES_OUT") = << last'.arg[1] >>
              ELSE /\ IncsOf(trace', "PACKETS_OUT") = <<>>
                   /\ IncsOf(trace', "BYTES_OUT") = <<>>
      ]_vars

\* C18: PACKETS_OUT counts the packets fully transmitted: a send completion
\* without error adds 1 to it when it reports exactly what was left of the
\* front buffer (the buffer is popped) and adds nothing when it reports
\* less (a partial write) or more; no other operation adds to it.
C18_PacketsOut ==
    [][ /\ (IsStep("handle_send") /\ ~halt /\ last'.ret)
              => IncsOf(trace', "PACKETS_OUT") =
                    IF last'.arg[1] = Len(heap[Head(queue)])
                    THEN << 1 >> ELSE <<>>
        /\ ~(IsStep("handle_send") /\ ~halt /\ last'.ret)
              => IncsOf(trace', "PACKETS_OUT") = <<>>
      ]_vars

\* C19: send() on a link that is not write-raw keeps packets too long for
\* the 2-byte prefix out of the queue: a packet it accepts is shorter than
\* PrefixRange, and the buffer it enqueues (seen before the hook) starts
\* with the packet's length.
C19_PrefixFits ==
    [][ (IsStep("send") /\ last'.ret /\ ~(RAW_MODE_ONLY \/ raw_mode_write))
           => /\ Len(last'.arg) < PrefixRange
              /\ LET buf == AfterHook(heap'[queue'[Len(queue')]])
                 IN  /\ Len(buf) = Len(last'.arg) + 2
                     /\ buf[1] * 256 + buf[2] = Len(last'.arg)
      ]_vars

\* the part of C19 that holds: the buffer enqueued for a packet that fits
\* the prefix starts with the packet's length
C19_PrefixOfFitting ==
    [][ (IsStep("send") /\ last'.ret /\ ~(RAW_MODE_ONLY \/ raw_mode_write)
            /\ Len(last'.arg) < PrefixRange)
           => LET buf == AfterHook(heap'[queue'[Len(queue')]])
              IN  /\ Len(buf) = Len(last'.arg) + 2
                  /\ buf[1] * 256 + buf[2] = Len(last'.arg)
      ]_vars

\* C20: while the link is not halted, between operations an async_send is
\* outstanding exactly when the queue is not empty, there is only one, and
\* it holds the buffer at the front of the queue with the bytes that buffer
\* has now; so send_queue_empty() is true exactly when no send is
\* outstanding and no buffer waits.
C20_SendOutstanding ==
    ~halt =>
       /\ (send_ops # <<>>) <=> (queue # <<>>)
       /\ Len(send_ops) <= 1
       /\ send_ops # <<>> =>
             /\ Head(send_ops).buf = Head(queue)
             /\ Head(send_ops).data = heap[Head(queue)]
       /\ send_queue_empty(World) <=> (send_ops = <<>> /\ queue = <<>>)

\* a completed write popped the front buffer and the send for the next one
\* is outstanding, a third buffer waiting behind it
C20_Witness ==
    /\ ~halt
    /\ last.op = "handle_send"
    /\ last.ret
    /\ Len(queue) >= 2
    /\ send_ops # <<>>
    /\ Head(send_ops).buf = Head(queue)
    /\ Head(queue) # queue[Len(queue)]

====
